---- MODULE Spec2Model ----
(***************************************************************************)
(* Model of the memdb database service layer (packages/memdb/src):         *)
(*   - BunDatabaseDriver: the connection/database registry and the RPC     *)
(*     handlers databaseConnect, databaseQuery, databaseList,              *)
(*     databaseTables (bun.mts);                                           *)
(*   - BunQueryObserver.apply: query execution, result-mode detection and  *)
(*     callback dispatch (bun.mts), with decodeRow/decodeCell (util.mts).  *)
(* The embedded SQL engine is opaque: each engine call nondeterministically*)
(* raises or yields one of a bounded set of outcomes.                      *)
(*                                                                         *)
(* Specifications:                                                         *)
(*   Spec        - one driver serving a bounded number of requests;        *)
(*   SpecObs     - one observer: callback registration, then recv;         *)
(*   SpecFn      - one call of an exported function;                       *)
(*   SpecAdapter - DatabaseClientAdapter over a service client;            *)
(*   SpecListen  - Listen streams read to their end;                       *)
(*   SpecConc    - databaseQuery handlers in flight at the same time.      *)
(***************************************************************************)
EXTENDS Integers, Sequences, FiniteSets, TLC

----------------------------------------------------------------------------
(* Bounds *)

\* number of requests one driver handles in a run
MaxRequests == 3
\* columns / rows of a materialized result (observer specification)
MaxCols == 2
MaxRows == 2
\* callbacks registered per channel on one observer
MaxCbks == 2
\* largest change count the engine reports
MaxChanges == 2
\* rows of a materialized result, in the driver specification
DrvRows == 2
\* databaseQuery handlers suspended at the same time
MaxAwaiting == 1
\* columns of a table in the engine's catalog
MaxTableCols == 2
\* tables in the engine's catalog
MaxTables == 2
\* statements in one query string handed to the classifier
MaxStatements == 3
\* largest token the service answers an adapter with
MaxToken == 2
\* Listen streams opened on one driver
MaxStreams == 4
\* databaseQuery handlers in flight at the same time
MaxObservers == 2

VARIABLES
  nextDbId,           \* BunDatabaseDriver.nextDbId
  nextConnectionId,   \* BunDatabaseDriver.nextConnectionId
  databasesBySpec,    \* spec string -> id of the managed database (NoDb: none)
  activeDatabases,    \* managed databases, keyed by id
  activeConnections,  \* managed connections, keyed by id
  awaiting,           \* databaseQuery handlers suspended at `await ... recv()`
  last,               \* what the synchronous part of the latest handler did
  returned,           \* what the latest resumed databaseQuery handler returned
  issued,             \* tokens handed out in databaseConnect responses
  seq,                \* number of requests received so far
  obsQuery,           \* BunQueryObserver.query
  onRowCbks,          \* GenericQueryObserver.onRowCbks
  onEndCbks,          \* GenericQueryObserver.onEndCbks
  onErrorCbks,        \* GenericQueryObserver.onErrorCbks
  obsPc,              \* "new" until recv has run, then "done"
  obsOut,             \* outcome of recv: thrown error or result, and dispatches
  fnArgs,             \* arguments of one call of an exported function
  fnRet,              \* what that call returned or threw
  isConnected,        \* DatabaseClientAdapter.isConnected
  adConnectionToken,    \* DatabaseClientAdapter.connectionToken
  adCall,             \* the adapter's latest call: request, answer and outcome
  streams,            \* the Listen streams opened so far, in order
  handlers,           \* concurrent databaseQuery handlers: where each one stands
  dispatchLog         \* callbacks dispatched by their observers, in order

driverVars == <<nextDbId, nextConnectionId, databasesBySpec, activeDatabases,
                activeConnections, awaiting, last, returned, issued, seq>>
obsVars == <<obsQuery, onRowCbks, onEndCbks, onErrorCbks, obsPc, obsOut>>
fnVars == <<fnArgs, fnRet>>
adapterVars == <<isConnected, adConnectionToken, adCall>>
listenVars == <<streams>>
concVars == <<handlers, dispatchLog>>
vars == <<driverVars, obsVars, fnVars, adapterVars, listenVars, concVars>>

----------------------------------------------------------------------------
(* Helpers *)

SeqUpTo(S, n) == UNION {[1..k -> S] : k \in 0..n}

Min(S) == CHOOSE x \in S : \A y \in S : x <= y

----------------------------------------------------------------------------
(* Errors.  A thrown value is a ConnectError (connect = TRUE, with a code) *)
(* or a plain Error (connect = FALSE).                                     *)

NoErr == [connect |-> FALSE, code |-> "", message |-> ""]
ConnectError(message, code) == [connect |-> TRUE, code |-> code, message |-> message]
PlainError(message) == [connect |-> FALSE, code |-> "", message |-> message]

\* Code enum of the RPC library: err.code.toString() gives the number
CodeToString(code) ==
  CASE code = "UNKNOWN" -> "2"
    [] code = "INVALID_ARGUMENT" -> "3"
    [] code = "NOT_FOUND" -> "5"
    [] code = "FAILED_PRECONDITION" -> "9"
    [] code = "UNIMPLEMENTED" -> "12"
    [] code = "INTERNAL" -> "13"
    [] OTHER -> "2"

----------------------------------------------------------------------------
(* Value codec (util.mts) *)

\* engine-native cells: [type, v]
NullCell == [type |-> "null", v |-> ""]
UndefinedCell == [type |-> "undefined", v |-> ""]
NumCell == [type |-> "number", v |-> "1"]
StrCell == [type |-> "string", v |-> "hello"]
BlobCell == [type |-> "blob", v |-> "00"]
BigIntCell == [type |-> "bigint", v |-> "1"]
BoolCell == [type |-> "boolean", v |-> "true"]

\* one cell of every kind of RawPrimitiveValue
AllCells == {NullCell, UndefinedCell, NumCell, StrCell, BlobCell, BigIntCell, BoolCell}

\* cells the engine puts in rows (observer specification)
EngineCells == {NullCell, NumCell, BlobCell}

\* ColumnPrimitiveType; "NONE" is an absent type, "OTHER" an unrecognized one
ColumnTypes == {"NONE", "UNSPECIFIED", "TEXT", "INTEGER", "REAL", "BLOB", "OTHER"}

NoValue == [kind |-> "none", v |-> ""]
NullValue == [kind |-> "nullValue", v |-> ""]
StringValue(s) == [kind |-> "stringValue", v |-> s]
NumberValue(n) == [kind |-> "numberValue", v |-> n]

\* `${cell}`
TemplateString(cell) ==
  CASE cell.type = "undefined" -> "undefined"
    [] cell.type = "blob" -> "0"
    [] OTHER -> cell.v

\* Buffer.from(cell).toString("base64")
Base64(bytes) == IF bytes = "00" THEN "AA==" ELSE "AQ=="

\* variant of decodeCell that looks at a declared type before it looks for null
decodeCellTypeFirst(column, cell) ==
  IF cell.type = "null" /\ column.type \in {"NONE", "UNSPECIFIED"}
    THEN [ok |-> TRUE, value |-> NullValue]
  ELSE IF column.type \notin {"NONE", "UNSPECIFIED"} THEN
    CASE column.type = "TEXT" ->
           [ok |-> TRUE, value |-> StringValue(TemplateString(cell))]
      [] column.type \in {"REAL", "INTEGER"} ->
           IF cell.type \in {"number", "bigint"}
             THEN [ok |-> TRUE, value |-> NumberValue(cell.v)]
             ELSE [ok |-> FALSE, value |-> NoValue]
      [] column.type = "BLOB" ->
           IF cell.type = "blob"
             THEN [ok |-> TRUE, value |-> StringValue(Base64(cell.v))]
             ELSE [ok |-> FALSE, value |-> NoValue]
      [] OTHER -> [ok |-> FALSE, value |-> NoValue]
  ELSE IF cell.type = "string" THEN [ok |-> TRUE, value |-> StringValue(cell.v)]
  ELSE IF cell.type = "number" THEN [ok |-> TRUE, value |-> NumberValue(cell.v)]
  ELSE [ok |-> FALSE, value |-> NoValue]

\* variant of decodeCell whose inference also takes a big integer as a number
decodeCellInferBigInt(column, cell) ==
  IF cell.type = "null" THEN [ok |-> TRUE, value |-> NullValue]
  ELSE IF column.type \notin {"NONE", "UNSPECIFIED"} THEN
    CASE column.type = "TEXT" ->
           [ok |-> TRUE, value |-> StringValue(TemplateString(cell))]
      [] column.type \in {"REAL", "INTEGER"} ->
           IF cell.type \in {"number", "bigint"}
             THEN [ok |-> TRUE, value |-> NumberValue(cell.v)]
             ELSE [ok |-> FALSE, value |-> NoValue]
      [] column.type = "BLOB" ->
           IF cell.type = "blob"
             THEN [ok |-> TRUE, value |-> StringValue(Base64(cell.v))]
             ELSE [ok |-> FALSE, value |-> NoValue]
      [] OTHER -> [ok |-> FALSE, value |-> NoValue]
  ELSE IF cell.type = "string" THEN [ok |-> TRUE, value |-> StringValue(cell.v)]
  ELSE IF cell.type \in {"number", "bigint"}
    THEN [ok |-> TRUE, value |-> NumberValue(cell.v)]
  ELSE [ok |-> FALSE, value |-> NoValue]

\* decodeCell(column, cell): `ok` FALSE when it throws
decodeCell(column, cell) ==
  IF cell.type = "null" THEN [ok |-> TRUE, value |-> NullValue]
  ELSE IF column.type \notin {"NONE", "UNSPECIFIED"} THEN
    CASE column.type = "TEXT" ->
           [ok |-> TRUE, value |-> StringValue(TemplateString(cell))]
      [] column.type \in {"REAL", "INTEGER"} ->
           IF cell.type \in {"number", "bigint"}
             THEN [ok |-> TRUE, value |-> NumberValue(cell.v)]
             ELSE [ok |-> FALSE, value |-> NoValue]
      [] column.type = "BLOB" ->
           IF cell.type = "blob"
             THEN [ok |-> TRUE, value |-> StringValue(Base64(cell.v))]
             ELSE [ok |-> FALSE, value |-> NoValue]
      [] OTHER -> [ok |-> FALSE, value |-> NoValue]
  ELSE IF cell.type = "string" THEN [ok |-> TRUE, value |-> StringValue(cell.v)]
  ELSE IF cell.type = "number" THEN [ok |-> TRUE, value |-> NumberValue(cell.v)]
  ELSE [ok |-> FALSE, value |-> NoValue]

\* columnDiagnostic() in decodeCell
columnDiagnostic(column) ==
  "{name: " \o column.name \o ", index: " \o ToString(column.index)
    \o ", type: " \o column.type \o "}"

\* the Error decodeCell throws when it throws
decodeCellError(column, cell) ==
  IF column.type \in {"REAL", "INTEGER"}
    THEN PlainError("Failed to safely coerce 'INTEGER' column value to number (column: "
                    \o columnDiagnostic(column) \o ")")
  ELSE IF column.type = "BLOB"
    THEN PlainError("Failed to safely coerce 'BLOB' column value to Uint8Array (column: "
                    \o columnDiagnostic(column) \o ")")
  ELSE IF column.type \notin {"NONE", "UNSPECIFIED"}
    THEN PlainError("Unsupported or unrecognized column type: " \o column.type)
  ELSE PlainError("Unsupported cell type, or unhandled type coercion (column: "
                  \o columnDiagnostic(column) \o ")")

\* a column spec as apply() builds it: {name, index}, no type
ColumnSpec(name, index) == [name |-> name, index |-> index, type |-> "NONE"]

createTableInfo(identity, table, columns) ==
  [identity |-> identity,
   name |-> table,
   column |-> [i \in 1..Len(columns) |->
                 [name |-> columns[i].name,
                  ordinal |-> i - 1,
                  type |-> IF columns[i].type = "NONE" THEN "UNSPECIFIED"
                           ELSE columns[i].type]]]

\* The object the engine materializes for one row: one property per distinct
\* column name, in order of first occurrence, holding the value of the last
\* column of that name.  Modelled as the sequence Object.entries() gives.
RECURSIVE DistinctNames(_, _)
DistinctNames(columns, i) ==
  IF i > Len(columns) THEN <<>>
  ELSE IF \E j \in 1..(i - 1) : columns[j] = columns[i]
    THEN DistinctNames(columns, i + 1)
    ELSE <<columns[i]>> \o DistinctNames(columns, i + 1)

LastIndexOf(columns, name) ==
  CHOOSE i \in 1..Len(columns) :
    /\ columns[i] = name
    /\ \A j \in (i + 1)..Len(columns) : columns[j] # name

RowObject(columns, cells) ==
  LET keys == DistinctNames(columns, 1)
  IN [k \in 1..Len(keys) |->
        [name |-> keys[k], value |-> cells[LastIndexOf(columns, keys[k])]]]

\* decodeRow: entries of the row object, the column spec at the same index
decodeRow(table, ordinal, row, columns) ==
  LET cell(i) ==
        LET hasCol == i <= Len(columns)
            columnType == IF hasCol /\ columns[i].type # "NONE"
                            THEN columns[i].type ELSE "UNSPECIFIED"
            columnName == IF hasCol /\ columns[i].name # ""
                            THEN columns[i].name ELSE row[i].name
        IN decodeCell([name |-> columnName, index |-> i - 1, type |-> columnType],
                      row[i].value)
  IN [ok |-> \A i \in 1..Len(row) : cell(i).ok,
      row |-> [table |-> table,
               ordinal |-> ordinal,
               value |-> [i \in 1..Len(row) |-> cell(i).value]]]

----------------------------------------------------------------------------
(* Query results (api.mts) and the wire envelope (bun.mts) *)

NoResult == [mode |-> "None", count |-> 0, value |-> UndefinedCell,
             tables |-> <<>>, rows |-> <<>>, error |-> "", code |-> ""]
EmptyResult == [NoResult EXCEPT !.mode = "Empty"]
MutationResult(count) == [NoResult EXCEPT !.mode = "Mutation", !.count = count]
SingleResult(value) == [NoResult EXCEPT !.mode = "Single", !.value = value]
\* variant of the Rows result that reports a query without rows as Empty
RowsResultOrEmpty(tables, rows) ==
  IF rows = <<>> THEN EmptyResult
  ELSE [NoResult EXCEPT !.mode = "Rows", !.tables = tables, !.rows = rows]

RowsResult(tables, rows) == [NoResult EXCEPT !.mode = "Rows", !.tables = tables, !.rows = rows]
ErrorResult(err) ==
  [NoResult EXCEPT !.mode = "Error",
                   !.error = err.message,
                   !.code = IF err.connect THEN CodeToString(err.code) ELSE "internal"]

NoEnvelope == [ok |-> FALSE, case |-> "none", count |-> 0, value |-> NoValue,
               table |-> <<>>, row |-> <<>>]

\* databaseValueForCell(value, {index: 0}) inside buildQueryResponse
databaseValueForCell(value) == decodeCell([name |-> "", index |-> 0, type |-> "NONE"], value)

buildQueryResponse(result) ==
  CASE result.mode = "Empty" ->
         [ok |-> TRUE, err |-> NoErr,
          resp |-> [NoEnvelope EXCEPT !.ok = TRUE, !.case = "empty"]]
    [] result.mode = "Error" ->
         [ok |-> FALSE, err |-> ConnectError("Query failed", "UNKNOWN"), resp |-> NoEnvelope]
    [] result.mode = "Mutation" ->
         [ok |-> TRUE, err |-> NoErr,
          resp |-> [NoEnvelope EXCEPT !.ok = TRUE, !.case = "mutation", !.count = result.count]]
    [] result.mode = "Single" ->
         LET d == databaseValueForCell(result.value)
         IN IF d.ok
              THEN [ok |-> TRUE, err |-> NoErr,
                    resp |-> [NoEnvelope EXCEPT !.ok = TRUE, !.case = "single", !.value = d.value]]
              ELSE [ok |-> FALSE, err |-> PlainError("Unsupported cell type"), resp |-> NoEnvelope]
    [] OTHER ->
         [ok |-> TRUE, err |-> NoErr,
          resp |-> [NoEnvelope EXCEPT !.ok = TRUE, !.case = "resultset",
                                     !.table = result.tables, !.row = result.rows]]

----------------------------------------------------------------------------
(* The engine, as seen from apply(): what exec / prepare / all can do *)

ColNames == <<"a", "b", "c">>

\* the type each column of the engine's tables was declared with, as in
\* `CREATE TABLE test (a INTEGER, b TEXT, c REAL)`
DeclaredType(name) ==
  CASE name = "a" -> "INTEGER"
    [] name = "b" -> "TEXT"
    [] OTHER -> "REAL"

NoOutcome == [kind |-> "none", changes |-> 0, columns |-> <<>>, cells |-> <<>>]

\* db.exec(queryStr): raises, or reports a change count
ExecOutcomes ==
  {[NoOutcome EXCEPT !.kind = "execThrow"]} \cup
  {[NoOutcome EXCEPT !.kind = "changes", !.changes = c] : c \in 0..MaxChanges}

\* stmt.columnNames.  Column names matter only up to renaming: a column
\* repeats an earlier name or takes the first name not used yet.
ColumnLists(maxCols) ==
  UNION {{[i \in 1..n |-> ColNames[f[i]]] :
            f \in {g \in [1..n -> 1..Len(ColNames)] :
                     \A i \in 1..n : g[i] = 1 \/ \E j \in 1..(i - 1) : g[j] >= g[i] - 1}} :
         n \in 0..maxCols}

\* the cells stmt.all() yields, one per column and row: numbers, and at most
\* one cell of another kind
CellGrids(n, maxRows, cellSet) ==
  UNION {LET plain == [r \in 1..m |-> [c \in 1..n |-> NumCell]]
         IN {plain} \cup {[plain EXCEPT ![r][c] = x] :
                            r \in 1..m, c \in 1..n, x \in cellSet \ {NumCell}} :
         m \in 0..(IF n = 0 THEN 0 ELSE maxRows)}

\* db.prepare(queryStr) raises; stmt.all() raises; or the statement yields
\* column names and, per row, one cell per column
RowOutcomes(maxCols, maxRows, cellSet) ==
  UNION {{[NoOutcome EXCEPT !.kind = "rows", !.columns = cs, !.cells = d] :
            d \in CellGrids(Len(cs), maxRows, cellSet)} :
         cs \in ColumnLists(maxCols)}

QueryOutcomes(maxCols, maxRows, cellSet) ==
  {[NoOutcome EXCEPT !.kind = "prepareThrow"], [NoOutcome EXCEPT !.kind = "allThrow"]}
  \cup RowOutcomes(maxCols, maxRows, cellSet)

\* stmt.all(): the row objects
Materialize(eng) == [r \in 1..Len(eng.cells) |-> RowObject(eng.columns, eng.cells[r])]

----------------------------------------------------------------------------
(* BunQueryObserver.apply (bun.mts) *)

\* the query bound to an observer: spec?.value is absent, "" or a SQL string
QuerySpecKinds == {"absent", "empty", "string"}
Queries == [specKind : QuerySpecKinds, statement : BOOLEAN]

\* what a registered callback does when called: "ok" returns, "throw"
\* raises; "log", "respond" and "capture" are databaseQuery's own callbacks
CallCbk(kind, arg) ==
  CASE kind = "throw" -> [ok |-> FALSE, err |-> PlainError("callback raised")]
    [] kind = "respond" ->
         LET outcome(built) == [ok |-> built.ok, err |-> built.err]
         IN outcome(buildQueryResponse(arg))
    [] OTHER -> [ok |-> TRUE, err |-> NoErr]

\* `for (const cbk of cbks) cbk(arg)`: in registration order, until one raises
RECURSIVE Dispatch(_, _, _, _, _)
Dispatch(cbks, j, ch, ordinal, arg) ==
  IF j > Len(cbks) THEN [ok |-> TRUE, err |-> NoErr, log |-> <<>>]
  ELSE LET ev == [ch |-> ch, cbk |-> j, row |-> ordinal]
           next(r) ==
             IF r.ok
               THEN [Dispatch(cbks, j + 1, ch, ordinal, arg) EXCEPT !.log = <<ev>> \o @]
               ELSE [ok |-> FALSE, err |-> r.err, log |-> <<ev>>]
       IN next(CallCbk(cbks[j], arg))

\* the row loop of step 1.4: decode row i, push it, dispatch on-row callbacks
RECURSIVE RowLoop(_, _, _, _, _)
RowLoop(data, i, identity, columnSpecs, rowCbks) ==
  IF i > Len(data) THEN [ok |-> TRUE, rows |-> <<>>, log |-> <<>>]
  ELSE LET continue(decoded, d, rest) ==
             [ok |-> rest.ok,
              rows |-> <<decoded.row>> \o rest.rows,
              log |-> d.log \o rest.log]
           dispatched(decoded, d) ==
             IF ~d.ok THEN [ok |-> FALSE, rows |-> <<decoded.row>>, log |-> d.log]
             ELSE continue(decoded, d, RowLoop(data, i + 1, identity, columnSpecs, rowCbks))
           pushed(decoded) ==
             IF ~decoded.ok THEN [ok |-> FALSE, rows |-> <<>>, log |-> <<>>]
             ELSE dispatched(decoded, Dispatch(rowCbks, 1, "row", i - 1, NoResult))
       IN pushed(decodeRow(identity, i - 1, data[i], columnSpecs))

\* variant of step 1.3 that does not look at the number of rows
IsSingleResultAnyRows(columns, data) ==
  /\ Len(columns) = 1
  /\ Len(data) >= 1
  /\ Len(data[1]) = 1
  /\ data[1][1].name = columns[1]
  /\ data[1][1].value.type # "undefined"

\* step 1.3: one column, one row, whose only property is named as the column
\* and is not undefined
IsSingleResult(columns, data) ==
  /\ Len(columns) = 1
  /\ Len(data) = 1
  /\ Len(data[1]) = 1
  /\ data[1][1].name = columns[1]
  /\ data[1][1].value.type # "undefined"

\* variant of step 1.1 that reports a mutation only above one change
ExecResultAboveOne(changes) ==
  IF changes > 1 THEN MutationResult(changes) ELSE EmptyResult

\* step 1.1: the result of a statement from the change count exec reports
ExecResult(changes) ==
  IF changes # 0 THEN MutationResult(changes) ELSE EmptyResult

\* the body of the try block
TryBody(query, eng, rowCbks) ==
  IF query.statement THEN
    IF eng.kind = "execThrow"
      THEN [failed |-> TRUE, err |-> PlainError("engine error"), result |-> NoResult, log |-> <<>>]
      ELSE [failed |-> FALSE, err |-> NoErr, result |-> ExecResult(eng.changes), log |-> <<>>]
  ELSE
    CASE eng.kind = "prepareThrow" ->
           [failed |-> TRUE,
            err |-> ConnectError("Invalid or unsupported query", "INVALID_ARGUMENT"),
            result |-> NoResult, log |-> <<>>]
      [] eng.kind = "allThrow" ->
           [failed |-> TRUE, err |-> PlainError("engine error"), result |-> NoResult, log |-> <<>>]
      [] OTHER ->
           LET rowsResult(tableInfo, loop) ==
                 IF loop.ok
                   THEN [failed |-> FALSE, err |-> NoErr,
                         result |-> RowsResult(<<tableInfo>>, loop.rows),
                         log |-> loop.log]
                   ELSE [failed |-> TRUE,
                         err |-> ConnectError("Failed to decode row", "INTERNAL"),
                         result |-> NoResult, log |-> loop.log]
               described(data, columns, columnSpecs, tableInfo) ==
                 IF IsSingleResult(columns, data)
                   THEN [failed |-> FALSE, err |-> NoErr,
                         result |-> SingleResult(data[1][1].value), log |-> <<>>]
                   ELSE rowsResult(tableInfo,
                                   RowLoop(data, 1, tableInfo.identity, columnSpecs, rowCbks))
               fetched(data, columns, columnSpecs) ==
                 described(data, columns, columnSpecs, createTableInfo(1, "", columnSpecs))
           IN fetched(Materialize(eng), eng.columns,
                      [i \in 1..Len(eng.columns) |-> ColumnSpec(eng.columns[i], i - 1)])

\* variant of apply() whose catch block does not return: the on-end
\* callbacks are dispatched after the on-error callbacks
applyEndAfterError(query, eng, rowCbks, endCbks, errCbks) ==
  IF query.specKind # "string"
    THEN [thrown |-> TRUE, err |-> ConnectError("Invalid query", "INVALID_ARGUMENT"),
          result |-> NoResult, log |-> <<>>]
  ELSE LET ended(b, result, de, d) ==
             IF ~de.ok
               THEN [thrown |-> TRUE, err |-> de.err, result |-> NoResult,
                     log |-> b.log \o de.log]
               ELSE [thrown |-> ~d.ok, err |-> IF d.ok THEN b.err ELSE d.err,
                     result |-> result, log |-> b.log \o de.log \o d.log]
           caught(b, result) ==
             ended(b, result,
                   IF b.failed THEN Dispatch(errCbks, 1, "error", 0, NoResult)
                   ELSE [ok |-> TRUE, err |-> NoErr, log |-> <<>>],
                   Dispatch(endCbks, 1, "end", 0, result))
           tried(b) == caught(b, IF b.failed THEN ErrorResult(b.err) ELSE b.result)
       IN tried(TryBody(query, eng, rowCbks))

\* apply(): `thrown` - the promise rejects with `err`; otherwise it resolves
\* with `result`.  `result` is the result apply() built (and handed to the
\* on-end callbacks), also when one of them then raised.  `log` lists the
\* callbacks called, in call order; when the try block failed, `err` is the
\* error handed to the on-error callbacks.
apply(query, eng, rowCbks, endCbks, errCbks) ==
  IF query.specKind # "string"
    THEN [thrown |-> TRUE, err |-> ConnectError("Invalid query", "INVALID_ARGUMENT"),
          result |-> NoResult, log |-> <<>>]
  ELSE LET caught(b, d) ==
             IF d.ok
               THEN [thrown |-> FALSE, err |-> b.err,
                     result |-> ErrorResult(b.err), log |-> b.log \o d.log]
               ELSE [thrown |-> TRUE, err |-> d.err,
                     result |-> NoResult, log |-> b.log \o d.log]
           ended(b, d) ==
             IF d.ok
               THEN [thrown |-> FALSE, err |-> NoErr,
                     result |-> b.result, log |-> b.log \o d.log]
               ELSE [thrown |-> TRUE, err |-> d.err,
                     result |-> b.result, log |-> b.log \o d.log]
           tried(b) ==
             IF b.failed
               THEN caught(b, Dispatch(errCbks, 1, "error", 0, NoResult))
               ELSE ended(b, Dispatch(endCbks, 1, "end", 0, b.result))
       IN tried(TryBody(query, eng, rowCbks))

\* GenericQueryObserver.recv
recv(query, eng, rowCbks, endCbks, errCbks) == apply(query, eng, rowCbks, endCbks, errCbks)

----------------------------------------------------------------------------
(* The query classifier's access check (sql.mts) *)

\* enum QueryType
DQL == 1
DML == 2
DDL == 3
QueryTypes == {DQL, DML, DDL}

\* enum DatabaseAccessLevel (api.mts)
ANONYMOUS == 0
READ_ONLY == 1
READ_WRITE == 2
ADMIN == 3
AccessLevels == {ANONYMOUS, READ_ONLY, READ_WRITE, ADMIN}

\* Math.max() of no arguments is -Infinity: below every access level
NegInfinity == -1

\* requisiteAccessForQueryType(type)
requisiteAccessForQueryType(type) ==
  CASE type = DDL -> ADMIN
    [] type = DML -> READ_WRITE
    [] type = DQL -> READ_ONLY

\* variant of maximalAccessLevel that takes the level of the first statement
maximalAccessLevelOfFirst(query) ==
  IF query.statements = <<>> THEN NegInfinity
  ELSE requisiteAccessForQueryType(query.statements[1].type)

\* maximalAccessLevel(query): Math.max over the statements' requisite levels
maximalAccessLevel(query) ==
  IF query.statements = <<>> THEN NegInfinity
  ELSE LET levels == {requisiteAccessForQueryType(query.statements[i].type) :
                        i \in 1..Len(query.statements)}
       IN CHOOSE m \in levels : \A l \in levels : l <= m

\* checkQueryAccess(query, level)
checkQueryAccess(query, level) == maximalAccessLevel(query) <= level

\* parseQuery(query), given what the parser makes of the string: it raises,
\* or yields the list of statements with their inferred types
parseQuery(parse) ==
  IF parse.fails
    THEN [ok |-> FALSE, err |-> PlainError("Failed to parse query"), query |-> [statements |-> <<>>]]
    ELSE [ok |-> TRUE, err |-> NoErr,
          query |-> [statements |-> [i \in 1..Len(parse.types) |-> [type |-> parse.types[i]]]]]

\* parseCheckQuery(query, level)
parseCheckQuery(parse, level) ==
  LET checked(parsed) ==
        IF ~parsed.ok THEN parsed
        ELSE IF ~checkQueryAccess(parsed.query, level)
          THEN [ok |-> FALSE,
                err |-> ConnectError("Access denied for query type", "PERMISSION_DENIED"),
                query |-> parsed.query]
          ELSE parsed
  IN checked(parseQuery(parse))

----------------------------------------------------------------------------
(* BunDatabaseDriver: the registry (bun.mts) *)

MemorySpec == ":memory:"
SpecStrings == {MemorySpec}

\* names a client may present; "" also stands for an absent identifier value
Names == {"default", "elsewhere", ""}

\* token values a client may present
Tokens == 0..MaxRequests

NoDb == 0
NoConn == [id |-> 0, db |-> 0, active |-> FALSE]

\* variant of specFromName that maps every name to the in-memory spec
specFromNameAny(name) == [ok |-> TRUE, err |-> NoErr, spec |-> MemorySpec]

\* specFromName(name)
specFromName(name) ==
  IF name # "default"
    THEN [ok |-> FALSE, err |-> ConnectError("Please use 'default' as the database name",
                                              "INVALID_ARGUMENT"), spec |-> ""]
    ELSE [ok |-> TRUE, err |-> NoErr, spec |-> MemorySpec]

\* the driver's private fields, as one record
Registry ==
  [nextDbId |-> nextDbId,
   nextConnectionId |-> nextConnectionId,
   databasesBySpec |-> databasesBySpec,
   activeDatabases |-> activeDatabases,
   activeConnections |-> activeConnections]

\* #spawn(spec)
spawn(reg, spec) ==
  LET id == reg.nextDbId
      managed == [id |-> id, spec |-> spec]
  IN [reg |-> [reg EXCEPT !.nextDbId = id + 1,
                          !.databasesBySpec[spec] = id,
                          !.activeDatabases = {d \in @ : d.id # id} \cup {managed}],
      managed |-> managed]

\* variant of #connect that deactivates the connections registered before
connectDeactivatingOthers(reg, spec) ==
  LET spawned == spawn(reg, spec)
      r1 == IF reg.databasesBySpec[spec] = NoDb THEN spawned.reg ELSE reg
      resolvedId == IF reg.databasesBySpec[spec] = NoDb
                      THEN spawned.managed.id ELSE reg.databasesBySpec[spec]
      id == r1.nextConnectionId
      conn == [id |-> id, db |-> resolvedId, active |-> TRUE]
  IN [reg |-> [r1 EXCEPT !.nextConnectionId = id + 1,
                         !.activeConnections =
                            {[c EXCEPT !.active = FALSE] : c \in {x \in @ : x.id # id}}
                            \cup {conn}],
      conn |-> conn]

\* variant of #connect that takes the next id without advancing the counter
connectNoIncrement(reg, spec) ==
  LET spawned == spawn(reg, spec)
      r1 == IF reg.databasesBySpec[spec] = NoDb THEN spawned.reg ELSE reg
      resolvedId == IF reg.databasesBySpec[spec] = NoDb
                      THEN spawned.managed.id ELSE reg.databasesBySpec[spec]
      id == r1.nextConnectionId
      conn == [id |-> id, db |-> resolvedId, active |-> TRUE]
  IN [reg |-> [r1 EXCEPT !.activeConnections = {c \in @ : c.id # id} \cup {conn}],
      conn |-> conn]

\* variant of #connect that spawns a database on every call
connectAlwaysSpawn(reg, spec) ==
  LET spawned == spawn(reg, spec)
      r1 == spawned.reg
      id == r1.nextConnectionId
      conn == [id |-> id, db |-> spawned.managed.id, active |-> TRUE]
  IN [reg |-> [r1 EXCEPT !.nextConnectionId = id + 1,
                         !.activeConnections = {c \in @ : c.id # id} \cup {conn}],
      conn |-> conn]

\* #connect(spec)
connect(reg, spec) ==
  LET spawned == spawn(reg, spec)
      r1 == IF reg.databasesBySpec[spec] = NoDb THEN spawned.reg ELSE reg
      resolvedId == IF reg.databasesBySpec[spec] = NoDb
                      THEN spawned.managed.id ELSE reg.databasesBySpec[spec]
      id == r1.nextConnectionId
      conn == [id |-> id, db |-> resolvedId, active |-> TRUE]
  IN [reg |-> [r1 EXCEPT !.nextConnectionId = id + 1,
                         !.activeConnections = {c \in @ : c.id # id} \cup {conn}],
      conn |-> conn]

\* variant of #availableConnection that never finds a connection
availableConnectionNone(reg, spec) == NoConn

\* #availableConnection(spec): `for (const id in activeConnections)` visits
\* the integer keys in ascending order
availableConnection(reg, spec) ==
  LET db == reg.databasesBySpec[spec]
      matching == {c \in reg.activeConnections : c.db = db}
  IN IF db = NoDb \/ matching = {} THEN NoConn
     ELSE CHOOSE c \in matching : c.id = Min({m.id : m \in matching})

\* activeConnections[id]
ConnectionOf(reg, id) ==
  IF \E c \in reg.activeConnections : c.id = id
    THEN CHOOSE c \in reg.activeConnections : c.id = id
    ELSE NoConn

\* variant of #validateConnection that only checks the flag of a found connection
validateConnectionMissingOk(reg, id) ==
  LET conn == ConnectionOf(reg, id)
  IN IF conn = NoConn THEN TRUE ELSE conn.active

\* #validateConnection(id)
validateConnection(reg, id) ==
  LET conn == ConnectionOf(reg, id)
  IN IF conn = NoConn THEN FALSE
     ELSE IF ~conn.active THEN FALSE
     ELSE conn.active

\* the connection a request carries (DatabaseConnection.spec): absent from
\* the request ("none"), present with no case set ("unset"), a token, or an
\* inline connect request with a name
NoConnSpec == [case |-> "none", token |-> 0, name |-> ""]
UnsetConnSpec == [case |-> "unset", token |-> 0, name |-> ""]
TokenSpec(t) == [case |-> "token", token |-> t, name |-> ""]
InlineSpec(n) == [case |-> "connect", token |-> 0, name |-> n]
ConnSpecs ==
  {NoConnSpec, UnsetConnSpec} \cup {TokenSpec(t) : t \in Tokens}
  \cup {InlineSpec(n) : n \in Names}

\* the connections a request can carry: a token above nextConnectionId names
\* no connection, exactly as nextConnectionId itself
RequestConns == {c \in ConnSpecs : c.case = "token" => c.token <= nextConnectionId}

\* #resolveConnection(conn)
resolveConnection(reg, conn) ==
  CASE conn.case = "token" ->
         IF ~validateConnection(reg, conn.token)
           THEN [ok |-> FALSE, err |-> ConnectError("Connection is not valid", "FAILED_PRECONDITION"),
                 reg |-> reg, conn |-> NoConn]
         ELSE IF ConnectionOf(reg, conn.token) = NoConn
           THEN [ok |-> FALSE, err |-> ConnectError("Connection not found", "NOT_FOUND"),
                 reg |-> reg, conn |-> NoConn]
         ELSE IF ~ConnectionOf(reg, conn.token).active
           THEN [ok |-> FALSE, err |-> ConnectError("Connection is inactive", "FAILED_PRECONDITION"),
                 reg |-> reg, conn |-> NoConn]
         ELSE [ok |-> TRUE, err |-> NoErr, reg |-> reg, conn |-> ConnectionOf(reg, conn.token)]
    [] conn.case = "connect" ->
         IF conn.name = ""
           THEN [ok |-> FALSE, err |-> ConnectError("Invalid connection string", "INVALID_ARGUMENT"),
                 reg |-> reg, conn |-> NoConn]
         ELSE IF ~specFromName(conn.name).ok
           THEN [ok |-> FALSE, err |-> specFromName(conn.name).err, reg |-> reg, conn |-> NoConn]
         ELSE LET spec == specFromName(conn.name).spec
                  avail == availableConnection(reg, spec)
              IN IF avail # NoConn
                   THEN [ok |-> TRUE, err |-> NoErr, reg |-> reg, conn |-> avail]
                   ELSE [ok |-> TRUE, err |-> NoErr,
                         reg |-> connect(reg, spec).reg, conn |-> connect(reg, spec).conn]
    [] OTHER ->
         [ok |-> FALSE, err |-> ConnectError("Invalid connection spec", "INVALID_ARGUMENT"),
          reg |-> reg, conn |-> NoConn]

\* #execute(conn, query): the checks before the observer is built
execute(reg, conn, query) ==
  IF query.specKind # "string"
    THEN [ok |-> FALSE, err |-> ConnectError("Unsupported query type or missing query",
                                              "INVALID_ARGUMENT")]
  ELSE IF ~\E d \in reg.activeDatabases : d.id = conn.db
    THEN [ok |-> FALSE, err |-> PlainError("undefined is not an object")]
  ELSE IF ~conn.active
    THEN [ok |-> FALSE, err |-> ConnectError("Invalid connection or connection failure",
                                              "FAILED_PRECONDITION")]
  ELSE [ok |-> TRUE, err |-> NoErr]

----------------------------------------------------------------------------
(* BunDatabaseDriver: the request handlers registered by setup() *)

ErrCode(err) == IF err = NoErr THEN "OK" ELSE IF err.connect THEN err.code ELSE "PLAIN_ERROR"

\* variant of connectionToken that is off by one
connectionTokenOffByOne(id) == id + 1

\* connectionToken(id): BigInt(id); the client sends it back and the driver
\* reads it with Number(token)
connectionToken(id) == id

DefaultQuery == [specKind |-> "absent", statement |-> FALSE]

\* engine outcomes the driver's queries draw from
DriverCells == {NumCell, BlobCell}
\* (one column: the handlers tell results apart by mode and by whether they
\* decode; results of several columns are explored in SpecObs)
DriverQueryOutcomes == QueryOutcomes(1, DrvRows, DriverCells)
DriverOutcomes(statement) == IF statement THEN ExecOutcomes ELSE DriverQueryOutcomes

\* no statement reached the engine
NoClass == 0

NoLast ==
  [seq |-> 0, op |-> "none", conn |-> NoConnSpec, status |-> "init", code |-> "",
   resolved |-> 0, token |-> 0, prevToken |-> 0, created |-> 0, spawned |-> 0,
   mode |-> "None", catalog |-> <<>>, table |-> <<>>, class |-> NoClass]

\* what a resumed databaseQuery handler returned, with the request's query,
\* the engine outcome and the result apply() built
NoReturned ==
  [seq |-> 0, code |-> "", resp |-> NoEnvelope, query |-> DefaultQuery,
   engine |-> "none", result |-> NoResult]

\* the synchronous part of a handler ran: the registry is now `reg`, and the
\* handler threw `err`, returned, or is suspended
Answered(op, conn, reg, status, err, resolved, token, mode, catalog, table, class) ==
  /\ seq' = seq + 1
  /\ nextDbId' = reg.nextDbId
  /\ nextConnectionId' = reg.nextConnectionId
  /\ databasesBySpec' = reg.databasesBySpec
  /\ activeDatabases' = reg.activeDatabases
  /\ activeConnections' = reg.activeConnections
  /\ last' = [seq |-> seq + 1, op |-> op, conn |-> conn, status |-> status,
              code |-> ErrCode(err), resolved |-> resolved, token |-> token,
              prevToken |-> IF last.op = "Connect" /\ last.status = "returned"
                              THEN last.token ELSE 0,
              created |-> Cardinality(reg.activeConnections \ activeConnections),
              spawned |-> Cardinality(reg.activeDatabases \ activeDatabases),
              mode |-> mode, catalog |-> catalog, table |-> table, class |-> class]

\* a handler other than databaseTables ran
Handled(op, conn, reg, status, err, resolved, token, mode) ==
  Answered(op, conn, reg, status, err, resolved, token, mode, <<>>, <<>>, NoClass)

\* databaseConnect(req): req.identifier is a name, or has no case set
databaseConnect ==
  /\ seq < MaxRequests
  /\ \E idCase \in {"name", "unset"}, name \in Names :
       /\ (idCase = "unset" => name = "")
       /\ IF idCase = "name"
            THEN IF specFromName(name).ok
                   THEN LET c == connect(Registry, specFromName(name).spec)
                            token == connectionToken(c.conn.id)
                        IN /\ Handled("Connect", InlineSpec(name), c.reg, "returned", NoErr,
                                      c.conn.id, token, "None")
                           /\ issued' = issued \cup {token}
                   ELSE /\ Handled("Connect", InlineSpec(name), Registry, "threw",
                                   specFromName(name).err, 0, 0, "None")
                        /\ UNCHANGED issued
            ELSE /\ Handled("Connect", UnsetConnSpec, Registry, "threw",
                            ConnectError("Unsupported identifier type", "UNIMPLEMENTED"),
                            0, 0, "None")
                 /\ UNCHANGED issued
  /\ UNCHANGED <<awaiting, returned, obsVars, fnVars, adapterVars, listenVars, concVars>>

\* the error databaseQuery's on-error callback captures
CaptureError(e) == IF e.connect THEN e ELSE ConnectError(e.message, "INTERNAL")

\* the classes of statement an engine outcome can come from: rows are
\* changed by DML only, columns come from DQL only, and a statement of any
\* class can raise or change nothing
StatementClasses(eng) ==
  CASE eng.kind = "changes" /\ eng.changes > 0 -> {DML}
    [] eng.kind = "rows" /\ eng.columns # <<>> -> {DQL}
    [] eng.kind = "rows" -> {DML, DDL}
    [] OTHER -> QueryTypes

\* variant of databaseQuery that hands the statement to the classifier as a
\* read-only caller before it runs it
queryAccessChecked(class) ==
  LET checked(c) == [ok |-> c.ok, err |-> c.err]
  IN checked(parseCheckQuery([fails |-> FALSE, types |-> <<class>>], READ_ONLY))

\* what databaseQuery does with the class of the statement between #execute
\* and recv(): nothing, the classifier is not called
queryAccess(class) == [ok |-> TRUE, err |-> NoErr]

\* databaseQuery(req), up to `await ... recv()`: the checks, the connection,
\* the observer with its three callbacks, and the synchronous run of apply()
databaseQuery ==
  /\ seq < MaxRequests
  /\ \E conn \in RequestConns :
       IF conn.case = "none"
         THEN /\ Handled("Query", conn, Registry, "threw",
                         ConnectError("No connection specified", "INVALID_ARGUMENT"),
                         0, 0, "None")
              /\ UNCHANGED awaiting
         ELSE LET observed(r, query, class, eng, out) ==
                    LET errored == \E k \in 1..Len(out.log) : out.log[k].ch = "error"
                        ended == ~out.thrown /\ \E k \in 1..Len(out.log) : out.log[k].ch = "end"
                    IN /\ Answered("Query", conn, r.reg, "awaiting", NoErr,
                                   r.conn.id, 0, out.result.mode, <<>>, <<>>, class)
                       /\ awaiting' = awaiting \cup
                            {[seq |-> seq + 1,
                              query |-> query,
                              engine |-> eng.kind,
                              result |-> out.result,
                              rejected |-> out.thrown,
                              rejection |-> IF out.thrown THEN out.err ELSE NoErr,
                              err |-> IF errored THEN CaptureError(out.err) ELSE NoErr,
                              resp |-> IF ended THEN buildQueryResponse(out.result).resp
                                       ELSE NoEnvelope]}
                  executed(r, query, x) ==
                    IF ~x.ok
                      THEN /\ Handled("Query", conn, r.reg, "threw", x.err, r.conn.id, 0, "None")
                           /\ UNCHANGED awaiting
                      ELSE \E eng \in DriverOutcomes(query.statement) :
                             \E class \in StatementClasses(eng) :
                               IF ~queryAccess(class).ok
                                 THEN /\ Handled("Query", conn, r.reg, "threw",
                                                 queryAccess(class).err, r.conn.id, 0, "None")
                                      /\ UNCHANGED awaiting
                                 ELSE /\ Cardinality(awaiting) < MaxAwaiting
                                      /\ observed(r, query, class, eng,
                                                  recv(query, eng, <<"log">>, <<"respond">>,
                                                       <<"capture">>))
                  resolved(r) ==
                    IF ~r.ok
                      THEN /\ Handled("Query", conn, r.reg, "threw", r.err, 0, 0, "None")
                           /\ UNCHANGED awaiting
                      ELSE \E hasQuery \in BOOLEAN :
                             IF ~hasQuery
                               THEN /\ Handled("Query", conn, r.reg, "threw",
                                               ConnectError("No query specified",
                                                            "INVALID_ARGUMENT"),
                                               r.conn.id, 0, "None")
                                    /\ UNCHANGED awaiting
                               ELSE \E query \in Queries :
                                      executed(r, query, execute(r.reg, r.conn, query))
              IN resolved(resolveConnection(Registry, conn))
  /\ UNCHANGED <<returned, issued, obsVars, fnVars, adapterVars, listenVars, concVars>>

\* databaseQuery after the await: rethrow the captured error, or return the
\* response
databaseQueryReturn ==
  /\ \E h \in awaiting :
       /\ awaiting' = awaiting \ {h}
       /\ returned' = [seq |-> h.seq,
                       code |-> IF h.rejected THEN ErrCode(h.rejection)
                                ELSE IF h.err # NoErr THEN ErrCode(h.err)
                                ELSE IF h.resp = NoEnvelope THEN "INTERNAL"
                                ELSE "OK",
                       resp |-> IF ~h.rejected /\ h.err = NoErr THEN h.resp ELSE NoEnvelope,
                       query |-> h.query,
                       engine |-> h.engine,
                       result |-> h.result]
  /\ UNCHANGED <<nextDbId, nextConnectionId, databasesBySpec, activeDatabases,
                 activeConnections, last, issued, seq, obsVars, fnVars, adapterVars, listenVars, concVars>>

\* databaseList(req)
databaseList ==
  /\ seq < MaxRequests
  /\ \E conn \in RequestConns :
       IF conn.case = "none"
         THEN Handled("List", conn, Registry, "threw",
                      ConnectError("No connection specified", "INVALID_ARGUMENT"), 0, 0, "None")
         ELSE LET r == resolveConnection(Registry, conn)
              IN IF ~r.ok
                   THEN Handled("List", conn, r.reg, "threw", r.err, 0, 0, "None")
                   ELSE Handled("List", conn, r.reg, "returned", NoErr, r.conn.id, 0, "None")
  /\ UNCHANGED <<awaiting, returned, issued, obsVars, fnVars, adapterVars, listenVars, concVars>>

\* columnTypeToPrimitive(type)
TypeStrings == {"TEXT", "INTEGER", "REAL", "BLOB", "VARCHAR"}
columnTypeToPrimitive(type) ==
  IF type \in {"TEXT", "INTEGER", "REAL", "BLOB"}
    THEN [ok |-> TRUE, err |-> NoErr, type |-> type]
    ELSE [ok |-> FALSE, err |-> ConnectError("Unsupported column type", "INVALID_ARGUMENT"),
          type |-> "UNSPECIFIED"]

\* names of tables and of columns, in ascending order
TableNames == <<"t1", "t2", "t3">>
ColumnNames == <<"c1", "c2", "c3">>

\* position of a table name in the order of names
NameRank(name) == CHOOSE i \in 1..Len(TableNames) : TableNames[i] = name

\* the rows `SELECT name, sql FROM sqlite_master WHERE type='table' ORDER BY
\* name` yields, each with the column definitions its CREATE TABLE declaration
\* parses to.  Tables come in the order of their names.  What the handler
\* does with a definition does not depend on where it stands, so every table
\* has MaxTableCols columns, all TEXT but for the last column of the last
\* table, which takes every type string.
Catalogs ==
  UNION {LET plain == [t \in 1..n |->
                         [name |-> TableNames[t],
                          definitions |-> [c \in 1..MaxTableCols |->
                                             [column |-> ColumnNames[c],
                                              dataType |-> "TEXT"]]]]
         IN IF n = 0 THEN {plain}
            ELSE {[plain EXCEPT ![n].definitions[MaxTableCols].dataType = x] :
                    x \in TypeStrings} :
         n \in 0..MaxTables}

\* variant of the reflector that lists the tables in reverse
reflectTablesReversed(catalog) ==
  IF \E t \in 1..Len(catalog) : \E c \in 1..Len(catalog[t].definitions) :
       ~columnTypeToPrimitive(catalog[t].definitions[c].dataType).ok
    THEN [ok |-> FALSE, err |-> ConnectError("Unsupported column type", "INVALID_ARGUMENT"),
          table |-> <<>>]
    ELSE [ok |-> TRUE, err |-> NoErr,
          table |-> [t \in 1..Len(catalog) |->
                       [name |-> catalog[Len(catalog) + 1 - t].name,
                        column |-> [c \in 1..Len(catalog[Len(catalog) + 1 - t].definitions) |->
                                      [name |-> catalog[Len(catalog) + 1 - t].definitions[c].column,
                                       type |-> columnTypeToPrimitive(
                                                  catalog[Len(catalog) + 1 - t].definitions[c].dataType).type]]]]]

\* the map over the catalog rows in databaseTables: one DatabaseTable per
\* row, one DatabaseColumn per column definition; columnTypeToPrimitive
\* throwing ends the handler
reflectTables(catalog) ==
  IF \E t \in 1..Len(catalog) : \E c \in 1..Len(catalog[t].definitions) :
       ~columnTypeToPrimitive(catalog[t].definitions[c].dataType).ok
    THEN [ok |-> FALSE, err |-> ConnectError("Unsupported column type", "INVALID_ARGUMENT"),
          table |-> <<>>]
    ELSE [ok |-> TRUE, err |-> NoErr,
          table |-> [t \in 1..Len(catalog) |->
                       [name |-> catalog[t].name,
                        column |-> [c \in 1..Len(catalog[t].definitions) |->
                                      [name |-> catalog[t].definitions[c].column,
                                       type |-> columnTypeToPrimitive(
                                                  catalog[t].definitions[c].dataType).type]]]]]

\* databaseTables(req)
databaseTables ==
  /\ seq < MaxRequests
  /\ \E conn \in RequestConns :
       IF conn.case = "none"
         THEN Handled("Tables", conn, Registry, "threw",
                      ConnectError("No connection specified", "INVALID_ARGUMENT"), 0, 0, "None")
         ELSE LET reflected(r, catalog, x) ==
                    Answered("Tables", conn, r.reg, IF x.ok THEN "returned" ELSE "threw",
                             x.err, r.conn.id, 0, "None", catalog, x.table, NoClass)
                  resolved(r) ==
                    IF ~r.ok
                      THEN Handled("Tables", conn, r.reg, "threw", r.err, 0, 0, "None")
                      ELSE \E catalog \in Catalogs :
                             reflected(r, catalog, reflectTables(catalog))
              IN resolved(resolveConnection(Registry, conn))
  /\ UNCHANGED <<awaiting, returned, issued, obsVars, fnVars, adapterVars, listenVars, concVars>>

----------------------------------------------------------------------------
(* One observer: onRow / onEnd / onError registrations, then recv *)

NoOut == [called |-> FALSE, eng |-> NoOutcome, thrown |-> FALSE, err |-> NoErr,
          result |-> NoResult, log |-> <<>>]

\* a registered callback returns normally or raises.  At most one raising
\* callback is registered per channel: the dispatch loop stops at the first
\* callback that raises, so a second one could never be told from the others.
CbkKinds == {"ok", "throw"}

onRow ==
  /\ obsPc = "new"
  /\ Len(onRowCbks) < MaxCbks
  /\ \E cbk \in CbkKinds :
       /\ cbk = "throw" => \A k \in 1..Len(onRowCbks) : onRowCbks[k] # "throw"
       /\ onRowCbks' = Append(onRowCbks, cbk)
  /\ UNCHANGED <<obsQuery, onEndCbks, onErrorCbks, obsPc, obsOut, driverVars, fnVars, adapterVars, listenVars, concVars>>

onError ==
  /\ obsPc = "new"
  /\ Len(onErrorCbks) < MaxCbks
  /\ \E cbk \in CbkKinds :
       /\ cbk = "throw" => \A k \in 1..Len(onErrorCbks) : onErrorCbks[k] # "throw"
       /\ onErrorCbks' = Append(onErrorCbks, cbk)
  /\ UNCHANGED <<obsQuery, onRowCbks, onEndCbks, obsPc, obsOut, driverVars, fnVars, adapterVars, listenVars, concVars>>

onEnd ==
  /\ obsPc = "new"
  /\ Len(onEndCbks) < MaxCbks
  /\ \E cbk \in CbkKinds :
       /\ cbk = "throw" => \A k \in 1..Len(onEndCbks) : onEndCbks[k] # "throw"
       /\ onEndCbks' = Append(onEndCbks, cbk)
  /\ UNCHANGED <<obsQuery, onRowCbks, onErrorCbks, obsPc, obsOut, driverVars, fnVars, adapterVars, listenVars, concVars>>

ObserverQueryOutcomes == QueryOutcomes(MaxCols, MaxRows, EngineCells)
ObserverOutcomes(statement) == IF statement THEN ExecOutcomes ELSE ObserverQueryOutcomes

\* recv(): the engine is called only when the query's SQL spec is a string
Recv ==
  /\ obsPc = "new"
  /\ \E eng \in IF obsQuery.specKind = "string"
                  THEN ObserverOutcomes(obsQuery.statement) ELSE {NoOutcome} :
       LET out == recv(obsQuery, eng, onRowCbks, onEndCbks, onErrorCbks)
       IN obsOut' = [called |-> TRUE, eng |-> eng, thrown |-> out.thrown, err |-> out.err,
                     result |-> out.result, log |-> out.log]
  /\ obsPc' = "done"
  /\ UNCHANGED <<obsQuery, onRowCbks, onEndCbks, onErrorCbks, driverVars, fnVars, adapterVars, listenVars, concVars>>

----------------------------------------------------------------------------
(* One call of an exported function, with arguments from bounded sets *)

NoParse == [fails |-> FALSE, types |-> <<>>]
NoArgs ==
  [fn |-> "none", parse |-> NoParse, level |-> ANONYMOUS, column |-> "NONE",
   cell |-> UndefinedCell, result |-> NoResult]
NoRet ==
  [called |-> FALSE, thrown |-> FALSE, err |-> NoErr, allowed |-> FALSE,
   value |-> NoValue, result |-> NoResult]

\* what the SQL parser can make of a query string
Parses ==
  {[fails |-> TRUE, types |-> <<>>]} \cup
  {[fails |-> FALSE, types |-> ts] : ts \in SeqUpTo(QueryTypes, MaxStatements) \ {<<>>}}

ParseCheckQueryArgs ==
  {[NoArgs EXCEPT !.fn = "parseCheckQuery", !.parse = p, !.level = l] :
     p \in Parses, l \in AccessLevels}

CallParseCheckQuery ==
  /\ fnArgs.fn = "parseCheckQuery"
  /\ ~fnRet.called
  /\ LET returns(parsed, out) ==
           fnRet' = [NoRet EXCEPT !.called = TRUE, !.thrown = ~out.ok, !.err = out.err,
                                  !.allowed = parsed.ok /\ checkQueryAccess(parsed.query,
                                                                             fnArgs.level)]
     IN returns(parseQuery(fnArgs.parse), parseCheckQuery(fnArgs.parse, fnArgs.level))
  /\ UNCHANGED <<fnArgs, driverVars, obsVars, adapterVars, listenVars, concVars>>

\* decodeCell({name, index, type}, cell), for every type and kind of cell
DecodeCellArgs ==
  {[NoArgs EXCEPT !.fn = "decodeCell", !.column = t, !.cell = c] :
     t \in ColumnTypes, c \in AllCells}

CallDecodeCell ==
  /\ fnArgs.fn = "decodeCell"
  /\ ~fnRet.called
  /\ LET returns(d) ==
           fnRet' = [NoRet EXCEPT !.called = TRUE, !.thrown = ~d.ok,
                                  !.err = IF d.ok THEN NoErr
                                          ELSE PlainError("Failed to decode cell"),
                                  !.value = d.value]
     IN returns(decodeCell([name |-> "sample", index |-> 0, type |-> fnArgs.column],
                           fnArgs.cell))
  /\ UNCHANGED <<fnArgs, driverVars, obsVars, adapterVars, listenVars, concVars>>

----------------------------------------------------------------------------
(* DatabaseClientAdapter.query: the result built from an envelope (api.mts) *)

\* NullValue.NULL_VALUE, the member of the NullValue enumeration a nullValue
\* kind carries: the number 0
NULL_VALUE == [type |-> "number", v |-> "0"]

\* single.data.value.kind.value
KindValue(value) ==
  CASE value.kind = "nullValue" -> NULL_VALUE
    [] value.kind = "stringValue" -> [type |-> "string", v |-> value.v]
    [] OTHER -> [type |-> "number", v |-> value.v]

\* the switch over resp.result?.result?.case in query(): `ok` FALSE when it
\* throws
queryResult(resp) ==
  CASE resp.case = "empty" -> [ok |-> TRUE, result |-> EmptyResult]
    [] resp.case = "mutation" ->
         [ok |-> TRUE,
          result |-> MutationResult(IF resp.count # 0 THEN resp.count ELSE 0)]
    [] resp.case = "single" ->
         IF resp.value.kind \in {"boolValue", "stringValue", "nullValue", "numberValue"}
           THEN [ok |-> TRUE, result |-> SingleResult(KindValue(resp.value))]
           ELSE [ok |-> FALSE, result |-> NoResult]
    [] resp.case = "resultset" ->
         [ok |-> TRUE, result |-> RowsResult(resp.table, resp.row)]
    [] OTHER -> [ok |-> FALSE, result |-> NoResult]

\* results the server side hands to buildQueryResponse: Empty, Mutation,
\* Single with a null, string or number value, and the Rows results apply()
\* builds
ServerResults ==
  {EmptyResult}
  \cup {MutationResult(c) : c \in 0..MaxChanges}
  \cup {SingleResult(c) : c \in {NullCell, StrCell, NumCell}}
  \cup {b.result : b \in {x \in {TryBody(DefaultQuery, eng, <<>>) :
                                    eng \in RowOutcomes(MaxCols, MaxRows, EngineCells)} :
                            ~x.failed /\ x.result.mode = "Rows"}}

AdapterQueryArgs == {[NoArgs EXCEPT !.fn = "query", !.result = x] : x \in ServerResults}

\* query(statement) against a service whose answer is the envelope
\* buildQueryResponse makes of the server-side result
CallAdapterQuery ==
  /\ fnArgs.fn = "query"
  /\ ~fnRet.called
  /\ LET decoded(q) ==
           fnRet' = [NoRet EXCEPT !.called = TRUE, !.thrown = ~q.ok,
                                  !.err = IF q.ok THEN NoErr
                                          ELSE PlainError("not yet implemented"),
                                  !.result = q.result]
         answered(b) ==
           IF b.ok THEN decoded(queryResult(b.resp))
           ELSE fnRet' = [NoRet EXCEPT !.called = TRUE, !.thrown = TRUE, !.err = b.err]
     IN answered(buildQueryResponse(fnArgs.result))
  /\ UNCHANGED <<fnArgs, driverVars, obsVars, adapterVars, listenVars, concVars>>

----------------------------------------------------------------------------
(* DatabaseClientAdapter over a service client (api.mts) *)

Statements == {"SELECT 1;", "INSERT INTO test (id) VALUES (1);"}

NoSent == [op |-> "none", name |-> "", token |-> 0, statement |-> FALSE, spec |-> ""]

\* connectionTokenOf / queryWithToken
queryWithToken(token, value, statement) ==
  [NoSent EXCEPT !.op = "Query", !.token = token, !.statement = statement, !.spec = value]

\* what the client's call does: rejects with `err`, or resolves with a
\* Connect response (`hasConnection`, `token`) or a Query response (`resp`)
NoAnswer ==
  [rejects |-> FALSE, err |-> NoErr, hasConnection |-> FALSE, token |-> 0,
   resp |-> NoEnvelope, table |-> <<>>]

Rejections ==
  {[NoAnswer EXCEPT !.rejects = TRUE, !.err = e] :
     e \in {ConnectError("Invalid database name", "INVALID_ARGUMENT"),
            ConnectError("Invalid or inactive connection", "FAILED_PRECONDITION"),
            PlainError("transport failed")}}

\* answers to databaseConnect: a rejection, a response without a connection,
\* or a response with a token (0 is the token's default value)
ConnectAnswers ==
  Rejections \cup {NoAnswer}
  \cup {[NoAnswer EXCEPT !.hasConnection = TRUE, !.token = t] : t \in 0..MaxToken}

\* envelopes of every case: empty, mutation, single, resultset and no case
AnswerEnvelopes ==
  {[NoEnvelope EXCEPT !.ok = TRUE, !.case = "empty"]}
  \cup {[NoEnvelope EXCEPT !.ok = TRUE, !.case = "mutation", !.count = c] : c \in 0..MaxChanges}
  \cup {[NoEnvelope EXCEPT !.ok = TRUE, !.case = "single", !.value = v] :
          v \in {NullValue, NumberValue("1"), StringValue("hello")}}
  \cup {[NoEnvelope EXCEPT !.ok = TRUE, !.case = "resultset"]}
  \cup {NoEnvelope}

\* answers to databaseQuery
QueryAnswers == Rejections \cup {[NoAnswer EXCEPT !.resp = e] : e \in AnswerEnvelopes}

\* answers to databaseTables: a rejection, or a response with its tables
TablesAnswers ==
  Rejections \cup {[NoAnswer EXCEPT !.table = t] : t \in {<<>>, <<"test">>}}

NoCall ==
  [op |-> "none", was |-> FALSE, sent |-> NoSent, answer |-> NoAnswer,
   thrown |-> FALSE, err |-> NoErr, result |-> NoResult, tables |-> <<>>]

\* variant of connect() whose catch block leaves isConnected alone
connectOutcomeKeepsFlag(answer, connection, token) ==
  IF answer.rejects
    THEN [thrown |-> TRUE, err |-> answer.err, isConnected |-> connection,
          adConnectionToken |-> token]
  ELSE IF answer.hasConnection /\ answer.token # 0
    THEN [thrown |-> FALSE, err |-> NoErr, isConnected |-> TRUE,
          adConnectionToken |-> answer.token]
  ELSE [thrown |-> TRUE, err |-> PlainError("connection token not provided by server"),
        isConnected |-> connection, adConnectionToken |-> token]

\* the try/catch of connect(): what it throws and the fields it leaves
connectOutcome(answer, connection, token) ==
  IF answer.rejects
    THEN [thrown |-> TRUE, err |-> answer.err, isConnected |-> FALSE,
          adConnectionToken |-> token]
  ELSE IF answer.hasConnection /\ answer.token # 0
    THEN [thrown |-> FALSE, err |-> NoErr, isConnected |-> TRUE,
          adConnectionToken |-> answer.token]
  ELSE [thrown |-> TRUE, err |-> PlainError("connection token not provided by server"),
        isConnected |-> FALSE, adConnectionToken |-> token]

\* connect(spec)
AdapterConnect ==
  \E name \in Names, answer \in ConnectAnswers :
    LET done(o) ==
          /\ isConnected' = o.isConnected
          /\ adConnectionToken' = o.adConnectionToken
          /\ adCall' = [NoCall EXCEPT !.op = "connect", !.was = isConnected,
                                      !.sent = [NoSent EXCEPT !.op = "Connect", !.name = name],
                                      !.answer = answer, !.thrown = o.thrown, !.err = o.err]
    IN /\ done(connectOutcome(answer, isConnected, adConnectionToken))
       /\ UNCHANGED <<driverVars, obsVars, fnVars, listenVars, concVars>>

\* `!this.connected` in exec, query and tables: `connected` is the method,
\* which is never falsy
NotConnected == FALSE

\* variant of exec()'s switch that builds results as query() does
execResultAsQuery(resp) == queryResult(resp)

\* the switch over resp.result?.result?.case in exec(): `ok` FALSE when it
\* throws
execResult(resp) ==
  CASE resp.case = "empty" -> [ok |-> TRUE, result |-> EmptyResult]
    [] resp.case = "mutation" ->
         [ok |-> TRUE,
          result |-> MutationResult(IF resp.count # 0 THEN resp.count ELSE 0)]
    [] OTHER -> [ok |-> FALSE, result |-> NoResult]

\* exec(statement)
AdapterExec ==
  \E statement \in Statements, answer \in QueryAnswers :
    LET call == [NoCall EXCEPT !.op = "exec", !.was = isConnected]
        switched(sent, x) ==
          adCall' = [call EXCEPT !.sent = sent, !.answer = answer, !.thrown = ~x.ok,
                                 !.err = IF x.ok THEN NoErr
                                         ELSE PlainError("not yet implemented (query client exec)"),
                                 !.result = x.result]
        asked(sent) ==
          IF answer.rejects
            THEN adCall' = [call EXCEPT !.sent = sent, !.answer = answer,
                                        !.thrown = TRUE, !.err = answer.err]
            ELSE switched(sent, execResult(answer.resp))
    IN /\ IF NotConnected
            THEN adCall' = [call EXCEPT !.thrown = TRUE,
                                        !.err = PlainError("Database is not connected")]
            ELSE asked(queryWithToken(adConnectionToken, statement, TRUE))
       /\ UNCHANGED <<isConnected, adConnectionToken, driverVars, obsVars, fnVars, listenVars, concVars>>

\* tables()
AdapterTables ==
  \E answer \in TablesAnswers :
    LET call == [NoCall EXCEPT !.op = "tables", !.was = isConnected]
        asked(sent) ==
          IF answer.rejects
            THEN adCall' = [call EXCEPT !.sent = sent, !.answer = answer,
                                        !.thrown = TRUE, !.err = answer.err]
            ELSE adCall' = [call EXCEPT !.sent = sent, !.answer = answer,
                                        !.tables = answer.table]
    IN /\ IF NotConnected
            THEN adCall' = [call EXCEPT !.thrown = TRUE,
                                        !.err = PlainError("Database is not connected")]
            ELSE asked([NoSent EXCEPT !.op = "Tables", !.token = adConnectionToken])
       /\ UNCHANGED <<isConnected, adConnectionToken, driverVars, obsVars, fnVars, listenVars, concVars>>

\* query(statement)
AdapterQuery ==
  \E statement \in Statements, answer \in QueryAnswers :
    LET call == [NoCall EXCEPT !.op = "query", !.was = isConnected]
        switched(sent, x) ==
          adCall' = [call EXCEPT !.sent = sent, !.answer = answer, !.thrown = ~x.ok,
                                 !.err = IF x.ok THEN NoErr
                                         ELSE PlainError("not yet implemented (query client recv)"),
                                 !.result = x.result]
        asked(sent) ==
          IF answer.rejects
            THEN adCall' = [call EXCEPT !.sent = sent, !.answer = answer,
                                        !.thrown = TRUE, !.err = answer.err]
            ELSE switched(sent, queryResult(answer.resp))
    IN /\ IF NotConnected
            THEN adCall' = [call EXCEPT !.thrown = TRUE,
                                        !.err = PlainError("Database is not connected")]
            ELSE asked(queryWithToken(adConnectionToken, statement, FALSE))
       /\ UNCHANGED <<isConnected, adConnectionToken, driverVars, obsVars, fnVars, listenVars, concVars>>

----------------------------------------------------------------------------
(* databaseListen: bindListenerFactory(#listenQuery) (bun.mts) *)

\* a generator that was called: nothing has run yet
NewStream == [pc |-> "start", events |-> 0, done |-> FALSE, err |-> NoErr]

\* variant of #listenQuery that returns after its event
listenQueryReturns(stream) ==
  CASE stream.pc = "start" -> [stream EXCEPT !.pc = "yielded", !.events = @ + 1]
    [] stream.pc = "yielded" -> [stream EXCEPT !.pc = "closed", !.done = TRUE]
    [] OTHER -> stream

\* one next() of the generator #listenQuery, as `yield*` passes it on: from
\* the start it runs to the yield and hands out an empty event; from the
\* yield it runs to the throw; a closed generator stays closed
listenQuery(stream) ==
  CASE stream.pc = "start" -> [stream EXCEPT !.pc = "yielded", !.events = @ + 1]
    [] stream.pc = "yielded" ->
         [stream EXCEPT !.pc = "closed", !.done = TRUE,
                        !.err = ConnectError("Not implemented", "UNIMPLEMENTED")]
    [] OTHER -> stream

\* databaseListen(req, ctx): the async generator is created
databaseListen ==
  /\ Len(streams) < MaxStreams
  /\ streams' = Append(streams, NewStream)
  /\ UNCHANGED <<driverVars, obsVars, fnVars, adapterVars, concVars>>

\* the router asks stream i for its next event
ListenNext(i) ==
  /\ i <= Len(streams)
  /\ ~streams[i].done
  /\ streams' = [streams EXCEPT ![i] = listenQuery(streams[i])]
  /\ UNCHANGED <<driverVars, obsVars, fnVars, adapterVars, concVars>>

----------------------------------------------------------------------------
(* Concurrent databaseQuery handlers on one driver (bun.mts) *)

IdleHandler == [pc |-> "idle", pending |-> <<>>]

\* variant of apply() that awaits between any two callbacks
applySegmentsPerCallback(log) ==
  IF log = <<>> THEN <<log>> ELSE [i \in 1..Len(log) |-> <<log[i]>>]

\* the stretches of apply() that run without giving up control, each with
\* the callbacks it dispatches: apply() holds no await, so recv() dispatches
\* all its callbacks in one stretch
applySegments(log) == <<log>>

\* databaseQuery of handler o runs until it gives up control: from the call
\* through #execute and recv() to the await, or from one await to the next
QueryRun(o) ==
  /\ handlers[o].pc \in {"idle", "running"}
  /\ LET ran(segments) ==
           /\ dispatchLog' = dispatchLog \o
                               [k \in 1..Len(segments[1]) |->
                                  [obs |-> o, ch |-> segments[1][k].ch,
                                   cbk |-> segments[1][k].cbk, row |-> segments[1][k].row]]
           /\ handlers' = [handlers EXCEPT
                             ![o] = [pc |-> IF Len(segments) > 1 THEN "running"
                                            ELSE "awaiting",
                                     pending |-> Tail(segments)]]
     IN IF handlers[o].pc = "running"
          THEN ran(handlers[o].pending)
          ELSE \E statement \in BOOLEAN :
                 \E eng \in DriverOutcomes(statement) :
                   ran(applySegments(recv([specKind |-> "string", statement |-> statement],
                                          eng, <<"log">>, <<"respond">>, <<"capture">>).log))
  /\ UNCHANGED <<driverVars, obsVars, fnVars, adapterVars, listenVars>>

\* handler o resumes after `await ... recv()` and returns or throws
QueryResume(o) ==
  /\ handlers[o].pc = "awaiting"
  /\ handlers' = [handlers EXCEPT ![o].pc = "returned"]
  /\ UNCHANGED <<dispatchLog, driverVars, obsVars, fnVars, adapterVars, listenVars>>

----------------------------------------------------------------------------
(* Specifications *)

DriverInit ==
  /\ nextDbId = 1
  /\ nextConnectionId = 1
  /\ databasesBySpec = [s \in SpecStrings |-> NoDb]
  /\ activeDatabases = {}
  /\ activeConnections = {}
  /\ awaiting = {}
  /\ last = NoLast
  /\ returned = NoReturned
  /\ issued = {}
  /\ seq = 0

ObserverIdle ==
  /\ onRowCbks = <<>>
  /\ onEndCbks = <<>>
  /\ onErrorCbks = <<>>
  /\ obsPc = "new"
  /\ obsOut = NoOut

FnIdle ==
  /\ fnArgs = NoArgs
  /\ fnRet = NoRet

AdapterIdle ==
  /\ isConnected = FALSE
  /\ adConnectionToken = 0
  /\ adCall = NoCall

NoStreams == streams = <<>>

NoHandlers ==
  /\ handlers = [o \in 1..MaxObservers |-> IdleHandler]
  /\ dispatchLog = <<>>

Init ==
  /\ DriverInit
  /\ obsQuery = DefaultQuery
  /\ ObserverIdle
  /\ FnIdle
  /\ AdapterIdle
  /\ NoStreams
  /\ NoHandlers

Next ==
  \/ databaseConnect
  \/ databaseQuery
  \/ databaseQueryReturn
  \/ databaseList
  \/ databaseTables

Spec == Init /\ [][Next]_vars

InitObs ==
  /\ DriverInit
  /\ obsQuery \in Queries
  /\ ObserverIdle
  /\ FnIdle
  /\ AdapterIdle
  /\ NoStreams
  /\ NoHandlers

NextObs ==
  \/ onRow
  \/ onEnd
  \/ onError
  \/ Recv

SpecObs == InitObs /\ [][NextObs]_vars

InitFn ==
  /\ DriverInit
  /\ obsQuery = DefaultQuery
  /\ ObserverIdle
  /\ fnArgs \in ParseCheckQueryArgs \cup DecodeCellArgs \cup AdapterQueryArgs
  /\ fnRet = NoRet
  /\ AdapterIdle
  /\ NoStreams
  /\ NoHandlers

NextFn ==
  \/ CallParseCheckQuery
  \/ CallDecodeCell
  \/ CallAdapterQuery

SpecFn == InitFn /\ [][NextFn]_vars

InitAdapter ==
  /\ DriverInit
  /\ obsQuery = DefaultQuery
  /\ ObserverIdle
  /\ FnIdle
  /\ AdapterIdle
  /\ NoStreams
  /\ NoHandlers

NextAdapter ==
  \/ AdapterConnect
  \/ AdapterExec
  \/ AdapterTables
  \/ AdapterQuery

SpecAdapter == InitAdapter /\ [][NextAdapter]_vars

InitListen ==
  /\ DriverInit
  /\ obsQuery = DefaultQuery
  /\ ObserverIdle
  /\ FnIdle
  /\ AdapterIdle
  /\ NoStreams
  /\ NoHandlers

NextListen ==
  \/ databaseListen
  \/ \E i \in 1..MaxStreams : ListenNext(i)

InitConc ==
  /\ DriverInit
  /\ obsQuery = DefaultQuery
  /\ ObserverIdle
  /\ FnIdle
  /\ AdapterIdle
  /\ NoStreams
  /\ NoHandlers

NextConc ==
  \/ \E o \in 1..MaxObservers : QueryRun(o)
  \/ \E o \in 1..MaxObservers : QueryResume(o)

SpecConc == InitConc /\ [][NextConc]_vars

\* the router reads a stream until it ends
SpecListen ==
  /\ InitListen
  /\ [][NextListen]_vars
  /\ \A i \in 1..MaxStreams : WF_vars(ListenNext(i))

----------------------------------------------------------------------------
(* Properties of the driver (specification Spec) *)

TokenRequest ==
  /\ last.op \in {"Query", "List", "Tables"}
  /\ last.conn.case = "token"

\* C1 (as stated): a Query, List or Tables request whose token no Connect
\* response ever carried, or whose token names an inactive connection, fails
\* with FAILED_PRECONDITION.
C1_TokenNotIssuedByConnectFails ==
  (/\ TokenRequest
   /\ \/ last.conn.token \notin issued
      \/ \E c \in activeConnections : c.id = last.conn.token /\ ~c.active)
  => (last.status = "threw" /\ last.code = "FAILED_PRECONDITION")

\* C1 (amended): a Query, List or Tables request whose token names no
\* connection of the registry (whether Connect or an inline-spec request
\* created it), or names an inactive one, fails with FAILED_PRECONDITION; it
\* never succeeds and never fails with another code.
C1_UnknownTokenFailsPrecondition ==
  (/\ TokenRequest
   /\ ~\E c \in activeConnections : c.id = last.conn.token /\ c.active)
  => (last.status = "threw" /\ last.code = "FAILED_PRECONDITION")

\* a token request for an id the registry does not hold, on a driver that
\* holds connections, was rejected
C1_Witness ==
  /\ TokenRequest
  /\ activeConnections # {}
  /\ ~\E c \in activeConnections : c.id = last.conn.token
  /\ last.code = "FAILED_PRECONDITION"

\* C2: the request handled right after a successful Connect, presenting the
\* token Connect returned, resolves to the connection Connect created and
\* does not fail connection validation.
C2_NewTokenImmediatelyUsable ==
  (/\ TokenRequest
   /\ last.prevToken # 0
   /\ last.conn.token = last.prevToken)
  => /\ last.resolved = last.prevToken
     /\ last.code \notin {"FAILED_PRECONDITION", "NOT_FOUND"}
     /\ \E c \in activeConnections : c.id = last.prevToken /\ c.active
     /\ last.created = 0

C2_Witness ==
  /\ last.op = "Query"
  /\ last.conn.case = "token"
  /\ last.prevToken # 0
  /\ last.conn.token = last.prevToken
  /\ last.resolved = last.prevToken
  /\ last.status = "awaiting"

\* C3: the id counters never decrease; every connection (database) a step
\* adds has an id at least the counter's old value, below its new value and
\* above every id registered before, and a token returned by Connect was
\* never returned before.  Steps of suspended databaseQuery handlers
\* interleave freely with the other handlers.
C3_IdsStrictlyIncrease ==
  [][/\ nextConnectionId' >= nextConnectionId
     /\ nextDbId' >= nextDbId
     /\ \A c \in activeConnections' \ activeConnections :
          /\ c.id >= nextConnectionId
          /\ c.id < nextConnectionId'
          /\ \A d \in activeConnections : c.id > d.id
     /\ \A c \in activeDatabases' \ activeDatabases :
          /\ c.id >= nextDbId
          /\ c.id < nextDbId'
          /\ \A d \in activeDatabases : c.id > d.id
     /\ \A t \in issued' \ issued :
          /\ t >= nextConnectionId
          /\ t < nextConnectionId'
          /\ \A d \in activeConnections : t > d.id
     /\ (last'.seq # last.seq /\ last'.created > 0) => nextConnectionId' > nextConnectionId
    ]_vars

\* two connections exist, one created while a databaseQuery handler is suspended
C3_Witness ==
  /\ Cardinality(activeConnections) >= 2
  /\ awaiting # {}
  /\ last.op = "Connect"
  /\ last.status = "returned"
  /\ \A h \in awaiting : h.seq < last.seq

\* C4: at most one Database per spec string; once created it is never
\* replaced or removed, and every connection references it.
C4_OneDatabasePerSpec ==
  /\ [](\A s \in SpecStrings :
          /\ Cardinality({d \in activeDatabases : d.spec = s}) <= 1
          /\ databasesBySpec[s] # NoDb =>
               \E d \in activeDatabases : d.id = databasesBySpec[s] /\ d.spec = s
          /\ databasesBySpec[s] = NoDb => ~\E d \in activeDatabases : d.spec = s)
  /\ [](\A c \in activeConnections : c.db = databasesBySpec[MemorySpec] /\ c.db # NoDb)
  /\ [][/\ \A s \in SpecStrings :
             databasesBySpec[s] # NoDb => databasesBySpec'[s] = databasesBySpec[s]
        /\ activeDatabases \subseteq activeDatabases'
       ]_vars

\* several connections share the one database of ':memory:'
C4_Witness ==
  /\ Cardinality(activeConnections) >= 2
  /\ Cardinality(activeDatabases) = 1
  /\ \A c \in activeConnections : c.db = databasesBySpec[MemorySpec]

\* C5: a request with an inline connect spec that resolves returns an
\* existing active connection of the name's database when there is one, and
\* then creates nothing; otherwise it creates exactly one connection, and
\* the database exactly when it was missing.
C5_InlineSpecReusesOrCreates ==
  [][(/\ last'.seq # last.seq
      /\ last'.op \in {"Query", "List", "Tables"}
      /\ last'.conn.case = "connect"
      /\ last'.resolved # 0)
     => LET db == databasesBySpec[MemorySpec]
            existing == {c \in activeConnections : db # NoDb /\ c.db = db /\ c.active}
        IN IF existing # {}
             THEN /\ last'.resolved \in {c.id : c \in existing}
                  /\ activeConnections' = activeConnections
                  /\ activeDatabases' = activeDatabases
                  /\ databasesBySpec' = databasesBySpec
                  /\ nextConnectionId' = nextConnectionId
                  /\ nextDbId' = nextDbId
             ELSE /\ activeConnections \subseteq activeConnections'
                  /\ Cardinality(activeConnections' \ activeConnections) = 1
                  /\ \A c \in activeConnections' \ activeConnections :
                       c.id = last'.resolved /\ c.active /\ c.db = databasesBySpec'[MemorySpec]
                  /\ IF db = NoDb
                       THEN Cardinality(activeDatabases' \ activeDatabases) = 1
                       ELSE activeDatabases' = activeDatabases
    ]_vars

\* an inline-spec request reused a connection that Connect had created
C5_Witness ==
  /\ last.op \in {"Query", "List", "Tables"}
  /\ last.conn.case = "connect"
  /\ last.resolved # 0
  /\ last.created = 0
  /\ last.spawned = 0
  /\ last.resolved \in issued

----------------------------------------------------------------------------
(* Properties of the observer (specification SpecObs) *)

\* recv ran on a query whose SQL spec is a string
Ran == obsOut.called /\ obsQuery.specKind = "string"

HasEvent(ch) == \E k \in 1..Len(obsOut.log) : obsOut.log[k].ch = ch

\* C6: with the statement-flag set the result is Mutation{count = c} when
\* exec reports c # 0 changes and Empty when it reports 0; it is never Single
\* or Rows.
C6_StatementGivesMutationOrEmpty ==
  (Ran /\ obsQuery.statement) =>
    /\ obsOut.result.mode \notin {"Single", "Rows"}
    /\ (obsOut.eng.kind = "changes" /\ obsOut.eng.changes # 0) =>
         /\ obsOut.result.mode = "Mutation"
         /\ obsOut.result.count = obsOut.eng.changes
    /\ (obsOut.eng.kind = "changes" /\ obsOut.eng.changes = 0) =>
         obsOut.result.mode = "Empty"
    /\ obsOut.eng.kind # "changes" => obsOut.result.mode \in {"Error", "None"}

\* recv returned Mutation{count = 2} for an exec that reported two changes
C6_Witness ==
  /\ Ran
  /\ obsQuery.statement
  /\ ~obsOut.thrown
  /\ obsOut.eng.kind = "changes"
  /\ obsOut.eng.changes = 2
  /\ obsOut.result.mode = "Mutation"
  /\ obsOut.result.count = 2

\* the materialized result has one column and one row, whose only property
\* is named as the column and is not undefined
OneByOne ==
  LET data == Materialize(obsOut.eng)
  IN /\ Len(obsOut.eng.columns) = 1
     /\ Len(data) = 1
     /\ Len(data[1]) = 1
     /\ data[1][1].name = obsOut.eng.columns[1]
     /\ data[1][1].value # UndefinedCell

\* every cell of the materialized rows is one an untyped column can decode
AllDecodable ==
  LET data == Materialize(obsOut.eng)
  IN \A r \in 1..Len(data) : \A i \in 1..Len(data[r]) :
       data[r][i].value.type \in {"null", "number", "string"}

\* C7: with the statement-flag unset the result is Single (carrying the
\* cell, null included) exactly when the materialized result is one by one
\* as above; otherwise it is Rows, or an error when a row fails to decode
\* or a per-row callback raises.
C7_SingleExactlyWhenOneByOne ==
  (Ran /\ ~obsQuery.statement /\ obsOut.eng.kind = "rows") =>
    /\ obsOut.result.mode = "Single" <=> OneByOne
    /\ obsOut.result.mode = "Single" => obsOut.result.value = obsOut.eng.cells[1][1]
    /\ ~OneByOne => obsOut.result.mode \in {"Rows", "Error", "None"}
    /\ (~OneByOne /\ AllDecodable /\ \A k \in 1..Len(onRowCbks) : onRowCbks[k] = "ok") =>
         obsOut.result.mode = "Rows"

\* recv returned Single for a one-by-one result whose cell is null
C7_Witness ==
  /\ Ran
  /\ ~obsQuery.statement
  /\ ~obsOut.thrown
  /\ obsOut.eng.kind = "rows"
  /\ obsOut.eng.cells = << <<NullCell>> >>
  /\ obsOut.result.mode = "Single"
  /\ obsOut.result.value = NullCell

C9_CallbackOrder ==
  Ran =>
    LET log == obsOut.log
        n == Len(log)
    IN /\ \A i \in 1..n : \A j \in 1..n :
            (i < j /\ log[i].ch = "row" /\ log[j].ch = "row") =>
              \/ log[i].row < log[j].row
              \/ log[i].row = log[j].row /\ log[i].cbk < log[j].cbk
       /\ \A i \in 1..n : \A j \in 1..n :
            (i < j /\ log[i].ch = "end") => log[j].ch = "end"
       /\ (HasEvent("end") /\ obsOut.result.mode = "Rows") =>
            \A r \in 1..Len(obsOut.eng.cells) : \A c \in 1..Len(onRowCbks) :
              \E k \in 1..n : log[k] = [ch |-> "row", cbk |-> c, row |-> r - 1]
       /\ ~(HasEvent("error") /\ HasEvent("end"))

\* two rows went to the per-row callback, then on-end was dispatched
C9_Witness ==
  /\ Ran
  /\ Len(onRowCbks) >= 1
  /\ Len(onEndCbks) >= 1
  /\ Len(obsOut.eng.cells) = 2
  /\ Len(obsOut.log) >= 3
  /\ obsOut.log[1] = [ch |-> "row", cbk |-> 1, row |-> 0]
  /\ obsOut.log[Len(obsOut.log)].ch = "end"
  /\ \E k \in 1..Len(obsOut.log) : obsOut.log[k].ch = "row" /\ obsOut.log[k].row = 1

EngineFailed == obsOut.eng.kind \in {"execThrow", "prepareThrow", "allThrow"}

\* C10 (as stated): when the engine fails, recv does not throw, dispatches
\* every on-error callback and returns an Error result carrying the message;
\* recv throws only when the SQL spec is missing or not a string.
C10_RecvThrowsOnlyWithoutSpec ==
  obsOut.called =>
    /\ obsOut.thrown <=> obsQuery.specKind # "string"
    /\ (Ran /\ EngineFailed) =>
         /\ ~obsOut.thrown
         /\ obsOut.result.mode = "Error"
         /\ obsOut.result.error = obsOut.err.message
         /\ \A c \in 1..Len(onErrorCbks) :
              \E k \in 1..Len(obsOut.log) :
                obsOut.log[k] = [ch |-> "error", cbk |-> c, row |-> 0]

----------------------------------------------------------------------------
(* Properties of the driver's error paths (specification Spec) *)

\* C11: an exec (a Query with the statement flag set) whose SQL the engine
\* rejects, on a connection that resolved, comes back from the handler as a
\* wire error with code INVALID_ARGUMENT and without an envelope
C11_InvalidExecIsInvalidArgument ==
  (returned.seq > 0 /\ returned.query.statement /\ returned.engine = "execThrow")
    => /\ returned.code = "INVALID_ARGUMENT"
       /\ returned.resp = NoEnvelope

\* C12: a Connect whose name is not 'default' throws INVALID_ARGUMENT and
\* changes nothing in the registry: no database, no connection, no counter,
\* and no token is issued
C12_UnknownNameLeavesRegistry ==
  [][(/\ last'.seq # last.seq
      /\ last'.op = "Connect"
      /\ last'.conn.case = "connect"
      /\ last'.conn.name # "default")
       => /\ last'.status = "threw"
          /\ last'.code = "INVALID_ARGUMENT"
          /\ UNCHANGED <<nextDbId, nextConnectionId, databasesBySpec,
                         activeDatabases, activeConnections, issued>>]_vars

\* Connect{name: "elsewhere"} was refused by a driver that already holds a
\* connection
C12_Witness ==
  /\ last.op = "Connect"
  /\ last.conn = InlineSpec("elsewhere")
  /\ last.status = "threw"
  /\ activeConnections # {}

\* C13: a Connect whose identifier is not the 'name' case (no case set, or a
\* case the driver does not support) fails with INVALID_ARGUMENT
C13_UnsupportedIdentifierIsInvalidArgument ==
  (last.op = "Connect" /\ last.conn = UnsetConnSpec)
    => /\ last.status = "threw"
       /\ last.code = "INVALID_ARGUMENT"

----------------------------------------------------------------------------
(* Properties of the exported functions (specification SpecFn) *)

Called(fn) == fnRet.called /\ fnArgs.fn = fn

\* C14: for a query that parsed into one or more statements and an access
\* level L, checkQueryAccess is true exactly when the highest level a
\* statement requires (DQL: READ_ONLY, DML: READ_WRITE, DDL: ADMIN) is at
\* most L, and parseCheckQuery raises permission-denied exactly when it is
\* false
C14_AccessIffRequiredLevel ==
  (Called("parseCheckQuery") /\ ~fnArgs.parse.fails) =>
    LET types == {fnArgs.parse.types[i] : i \in 1..Len(fnArgs.parse.types)}
        required == IF DDL \in types THEN ADMIN
                    ELSE IF DML \in types THEN READ_WRITE
                    ELSE READ_ONLY
    IN /\ fnRet.allowed <=> required <= fnArgs.level
       /\ fnRet.thrown <=> ~fnRet.allowed
       /\ fnRet.thrown => fnRet.err = ConnectError("Access denied for query type",
                                                    "PERMISSION_DENIED")

\* a SELECT followed by a DROP was refused at READ_WRITE
C14_Witness ==
  /\ Called("parseCheckQuery")
  /\ fnArgs.parse.types = <<DQL, DDL>>
  /\ fnArgs.level = READ_WRITE
  /\ fnRet.thrown

\* C15: decodeCell of a null cell returns the null case and does not
\* throw, whatever the column's type: a declared one, UNSPECIFIED, none, or
\* an unrecognized one
C15_NullDecodesToNull ==
  (Called("decodeCell") /\ fnArgs.cell = NullCell)
    => /\ ~fnRet.thrown
       /\ fnRet.value = NullValue

\* null was decoded for a column of an unrecognized type
C15_Witness ==
  /\ Called("decodeCell")
  /\ fnArgs.cell = NullCell
  /\ fnArgs.column = "OTHER"
  /\ fnRet.value = NullValue

C17_EncodeDecodeIdentity ==
  Called("query") => /\ ~fnRet.thrown
                     /\ fnRet.result = fnArgs.result

\* C18: connect(name) of the adapter: when the Connect call succeeds with
\* a token, the adapter stores that token and connected() is true; when the
\* call fails, or the response carries no token, connected() is false, also
\* if it was true before, and the error is raised to the caller
C18_ConnectSetsOrClearsConnected ==
  adCall.op = "connect" =>
    IF ~adCall.answer.rejects /\ adCall.answer.hasConnection /\ adCall.answer.token # 0
      THEN /\ ~adCall.thrown
           /\ isConnected
           /\ adConnectionToken = adCall.answer.token
      ELSE /\ adCall.thrown
           /\ ~isConnected
           /\ adCall.answer.rejects => adCall.err = adCall.answer.err

\* a connected adapter's connect was rejected and left it not connected
C18_Witness ==
  /\ adCall.op = "connect"
  /\ adCall.was
  /\ adCall.answer.rejects
  /\ adCall.thrown
  /\ ~isConnected

\* C19: exec(statement) of the adapter sends the Query with the statement
\* flag set; it returns Empty for an `empty` envelope and Mutation{count} for
\* a `mutation` envelope, and for every other envelope case (single,
\* resultset, no case) it raises an error and returns no result
C19_ExecEmptyOrMutationOnly ==
  (adCall.op = "exec") =>
    /\ adCall.sent.op = "Query" /\ adCall.sent.statement
    /\ ~adCall.answer.rejects =>
         LET resp == adCall.answer.resp
         IN CASE resp.case = "empty" -> ~adCall.thrown /\ adCall.result = EmptyResult
              [] resp.case = "mutation" ->
                   ~adCall.thrown /\ adCall.result = MutationResult(resp.count)
              [] OTHER -> adCall.thrown /\ adCall.result = NoResult
    /\ adCall.result.mode \notin {"Single", "Rows"}

\* exec was answered with a `single` envelope and raised
C19_Witness ==
  /\ adCall.op = "exec"
  /\ ~adCall.answer.rejects
  /\ adCall.answer.resp.case = "single"
  /\ adCall.thrown
  /\ adCall.result = NoResult

C21_ListenOneEventThenUnimplemented ==
  /\ [](\A i \in 1..Len(streams) :
          /\ streams[i].events <= 1
          /\ streams[i].done =>
               /\ streams[i].events = 1
               /\ streams[i].err = ConnectError("Not implemented", "UNIMPLEMENTED"))
  /\ \A i \in 1..MaxStreams :
       (Len(streams) >= i)
         ~> (Len(streams) >= i /\ streams[i].done /\ streams[i].events = 1)

\* two streams have ended, each after one event, and a third is at its event
C21_Witness ==
  /\ Len(streams) >= 3
  /\ streams[1].done /\ streams[1].events = 1
  /\ streams[2].done /\ streams[2].err.code = "UNIMPLEMENTED"
  /\ streams[3].pc = "yielded"

\* C22: a Rows result carries exactly one table descriptor, with identity 1
\* and no name, whose columns are the result's columns in order, each with
\* its name and the primitive type it was declared with; the rows are in the
\* engine's order, row i with zero-based ordinal i and table identity 1
C22_RowsDescribeDeclaredColumns ==
  (obsOut.called /\ ~obsOut.thrown /\ obsOut.result.mode = "Rows") =>
    LET tables == obsOut.result.tables
        rows == obsOut.result.rows
        columns == obsOut.eng.columns
    IN /\ Len(tables) = 1
       /\ tables[1].identity = 1
       /\ tables[1].name = ""
       /\ Len(tables[1].column) = Len(columns)
       /\ \A i \in 1..Len(columns) :
            /\ tables[1].column[i].name = columns[i]
            /\ tables[1].column[i].type = DeclaredType(columns[i])
       /\ Len(rows) = Len(obsOut.eng.cells)
       /\ \A i \in 1..Len(rows) : rows[i].ordinal = i - 1 /\ rows[i].table = 1

\* C23: when a cell of a row cannot be decoded during a Query, the request
\* fails with code INTERNAL and the error reported to the caller identifies
\* the column ordinal and the declared type of the failing cell: its message
\* is the one decodeCell raised for a column of the result
C23_DecodeFailureNamesColumn ==
  (returned.seq > 0 /\ returned.engine = "rows" /\ returned.result.mode = "Error")
    => /\ returned.code = "INTERNAL"
       /\ \E index \in 0..(MaxCols - 1), name \in {ColNames[i] : i \in 1..Len(ColNames)},
             cell \in AllCells :
            returned.result.error =
              decodeCellError([name |-> name, index |-> index, type |-> "UNSPECIFIED"],
                              cell).message

\* C24: when a per-row, on-end or on-error callback raises, recv does not
\* throw, the error is dispatched to every on-error callback, and the other
\* callbacks registered on the raising callback's channel are dispatched too
C24_RaisingCallbackIsContained ==
  (obsOut.called /\ obsQuery.specKind = "string") =>
    /\ ~obsOut.thrown
    /\ \A k \in 1..Len(obsOut.log) :
         LET ev == obsOut.log[k]
             cbks == CASE ev.ch = "row" -> onRowCbks
                       [] ev.ch = "end" -> onEndCbks
                       [] OTHER -> onErrorCbks
         IN /\ \A c \in 1..Len(cbks) :
                 \E j \in 1..Len(obsOut.log) :
                   obsOut.log[j] = [ch |-> ev.ch, cbk |-> c, row |-> ev.row]
            /\ cbks[ev.cbk] = "throw" =>
                 \A c \in 1..Len(onErrorCbks) :
                   \E j \in 1..Len(obsOut.log) :
                     obsOut.log[j].ch = "error" /\ obsOut.log[j].cbk = c

\* C25: for any two Query requests handled concurrently by one driver, the
\* callbacks of one observer's recv are dispatched as one uninterrupted
\* block: between two callbacks of one observer no callback of another
\* observer is dispatched
C25_CallbacksOfOneRecvAreContiguous ==
  \A i, j, k \in 1..Len(dispatchLog) :
    (i < j /\ j < k /\ dispatchLog[i].obs = dispatchLog[k].obs)
      => dispatchLog[j].obs = dispatchLog[i].obs

\* two handlers are suspended at their await at the same time, the second
\* one called first, each after its observer dispatched two row callbacks
\* and the on-end callback
C25_Witness ==
  /\ handlers[1].pc = "awaiting"
  /\ handlers[2].pc = "awaiting"
  /\ Len(dispatchLog) = 6
  /\ dispatchLog[1].obs = 2
  /\ dispatchLog[3] = [obs |-> 2, ch |-> "end", cbk |-> 1, row |-> 0]
  /\ dispatchLog[4] = [obs |-> 1, ch |-> "row", cbk |-> 1, row |-> 0]

\* C26: the Query handler never consults the SQL classifier: on a valid
\* connection a statement of every class (DQL, DML, DDL) that #execute
\* accepts is passed to the engine, and no Query request fails with
\* PERMISSION_DENIED, neither before nor after its await
C26_QueryNeverDenied ==
  /\ last.op = "Query" => last.code # "PERMISSION_DENIED"
  /\ returned.code # "PERMISSION_DENIED"
  /\ (last.op = "Query" /\ last.class # NoClass) => last.status = "awaiting"

\* a statement that alters the schema went to the engine
C26_Witness ==
  /\ last.op = "Query"
  /\ last.class = DDL
  /\ last.status = "awaiting"
  /\ last.mode = "Empty"

\* C27: exec, query and tables called on an adapter whose connected() is
\* false (never connected, or after a failed connect) raise 'Database is not
\* connected' and send no request to the server.
C27_DisconnectedCallsRaise ==
  (adCall.op \in {"exec", "query", "tables"} /\ ~adCall.was) =>
    /\ adCall.thrown
    /\ adCall.err = PlainError("Database is not connected")
    /\ adCall.sent = NoSent

\* C28: a Query request that the handler rejects with INVALID_ARGUMENT
\* (missing connection, or missing query) leaves the registry as it was:
\* the databases, the connections and both id counters, also when the
\* request carried an inline connect spec.
C28_RejectedQueryLeavesRegistry ==
  [][(/\ last'.seq # last.seq
      /\ last'.op = "Query"
      /\ last'.status = "threw"
      /\ last'.code = "INVALID_ARGUMENT")
       => UNCHANGED <<nextDbId, nextConnectionId, databasesBySpec,
                      activeDatabases, activeConnections>>]_vars

C30_ConnectionsStayValid ==
  /\ [](\A c \in activeConnections :
          /\ c.active
          /\ \E d \in activeDatabases : d.id = c.db)
  /\ [](\A t \in issued : validateConnection(Registry, t))
  /\ []((TokenRequest /\ last.conn.token \in issued)
          => /\ last.resolved = last.conn.token
             /\ last.status # "threw" \/ last.code \notin {"FAILED_PRECONDITION", "NOT_FOUND"})
  /\ [][/\ activeConnections \subseteq activeConnections'
        /\ activeDatabases \subseteq activeDatabases'
        /\ issued \subseteq issued'
       ]_vars

\* the third request presents a token that the first request's Connect
\* returned, after a second Connect created another connection, and resolves
C30_Witness ==
  /\ last.seq = 3
  /\ TokenRequest
  /\ last.conn.token \in issued
  /\ last.prevToken # 0
  /\ last.conn.token # last.prevToken
  /\ last.resolved = last.conn.token
  /\ last.status # "threw"

====
